---- MODULE Spec2Model ----
(***************************************************************************)
(* The two custom recognitions of agent/my_reco.py:                        *)
(*   IsNumberGreaterThanZero.analyze  (report-only mode)                   *)
(*   NumberComparison.analyze         (gating mode)                        *)
(* One analyze call is modelled from its entry to its return.  The call is *)
(* cut at the only external call it makes, context.run_recognition, so the *)
(* three steps of a call are: resolve the parameters, run the recognition, *)
(* evaluate what came back.                                                *)
(*                                                                         *)
(* Python strings are sequences of one-character strings.  A Python number *)
(* is a record [k, m, s, sp]: k its type (int, float, bool), and its value *)
(* m / 10^s when sp = "fin", +/-infinity (the sign of m) when sp = "inf",  *)
(* not-a-number when sp = "nan".                                           *)
(***************************************************************************)
EXTENDS Integers, Sequences, FiniteSets, TLC

\* Longest generated OCR text, in characters.
MaxLen == 3

----------------------------------------------------------------------------
(* Python numbers *)

RECURSIVE Pow10(_)
Pow10(n) == IF n = 0 THEN 1 ELSE 10 * Pow10(n - 1)

Abs(x) == IF x < 0 THEN -x ELSE x

PyInt(v) == [k |-> "int", m |-> v, s |-> 0, sp |-> "fin"]

\* A float in lowest decimal terms: trailing zeros of the fraction dropped.
RECURSIVE PyFloat(_, _)
PyFloat(m, s) ==
    IF s > 0 /\ m % 10 = 0
    THEN PyFloat(m \div 10, s - 1)
    ELSE [k |-> "float", m |-> m, s |-> s, sp |-> "fin"]

PyInf(sign) == [k |-> "float", m |-> sign, s |-> 0, sp |-> "inf"]

PyNaN == [k |-> "float", m |-> 0, s |-> 0, sp |-> "nan"]

\* True and False are the ints 1 and 0 (bool is a subclass of int).
PyBool(b) == [k |-> "bool", m |-> IF b THEN 1 ELSE 0, s |-> 0, sp |-> "fin"]

\* a < b on Python numbers, by value; every ordering with a NaN is false.
PyLt(a, b) ==
    IF a.sp = "nan" \/ b.sp = "nan" THEN FALSE
    ELSE IF a.sp = "inf" THEN a.m < 0 /\ ~(b.sp = "inf" /\ b.m < 0)
    ELSE IF b.sp = "inf" THEN b.m > 0
    ELSE a.m * Pow10(b.s) < b.m * Pow10(a.s)

\* a == b on Python numbers, by value; a NaN equals nothing.
PyEq(a, b) ==
    IF a.sp = "nan" \/ b.sp = "nan" THEN FALSE
    ELSE IF a.sp = "inf" \/ b.sp = "inf"
         THEN a.sp = "inf" /\ b.sp = "inf" /\ (a.m < 0) = (b.m < 0)
    ELSE a.m * Pow10(b.s) = b.m * Pow10(a.s)

----------------------------------------------------------------------------
(* Python strings *)

Digits == {"0", "1", "2", "3", "4", "5", "6", "7", "8", "9"}

DigitVal(c) ==
    CASE c = "0" -> 0 [] c = "1" -> 1 [] c = "2" -> 2 [] c = "3" -> 3
      [] c = "4" -> 4 [] c = "5" -> 5 [] c = "6" -> 6 [] c = "7" -> 7
      [] c = "8" -> 8 [] c = "9" -> 9

DigitChar(d) ==
    CASE d = 0 -> "0" [] d = 1 -> "1" [] d = 2 -> "2" [] d = 3 -> "3"
      [] d = 4 -> "4" [] d = 5 -> "5" [] d = 6 -> "6" [] d = 7 -> "7"
      [] d = 8 -> "8" [] d = 9 -> "9"

Whitespace == {" "}

RECURSIVE LStrip(_)
LStrip(s) == IF s # <<>> /\ Head(s) \in Whitespace THEN LStrip(Tail(s)) ELSE s

RECURSIVE RStrip(_)
RStrip(s) ==
    IF s # <<>> /\ s[Len(s)] \in Whitespace
    THEN RStrip(SubSeq(s, 1, Len(s) - 1))
    ELSE s

\* str.strip()
Strip(s) == RStrip(LStrip(s))

AllDigits(s) == \A i \in 1..Len(s) : s[i] \in Digits

RECURSIVE DigitsVal(_)
DigitsVal(s) ==
    IF s = <<>> THEN 0
    ELSE 10 * DigitsVal(SubSeq(s, 1, Len(s) - 1)) + DigitVal(s[Len(s)])

\* The decimal digits of a natural number.
RECURSIVE StrNat(_)
StrNat(n) ==
    IF n < 10 THEN <<DigitChar(n)>>
    ELSE Append(StrNat(n \div 10), DigitChar(n % 10))

\* The last w decimal digits of n, zero-padded.
RECURSIVE PadDigits(_, _)
PadDigits(n, w) ==
    IF w = 0 THEN <<>>
    ELSE Append(PadDigits(n \div 10, w - 1), DigitChar(n % 10))

\* str(x) of a Python number, as an f-string renders it.
StrOf(x) ==
    IF x.k = "bool" THEN (IF x.m = 1 THEN <<"T", "r", "u", "e">>
                                     ELSE <<"F", "a", "l", "s", "e">>)
    ELSE IF x.sp = "nan" THEN <<"n", "a", "n">>
    ELSE IF x.sp = "inf"
         THEN (IF x.m < 0 THEN <<"-">> ELSE <<>>) \o <<"i", "n", "f">>
    ELSE LET sign == IF x.m < 0 THEN <<"-">> ELSE <<>>
             a    == Abs(x.m)
         IN  IF x.k = "int" THEN sign \o StrNat(a)
             ELSE sign \o StrNat(a \div Pow10(x.s)) \o <<".">>
                       \o (IF x.s = 0 THEN <<"0">>
                                      ELSE PadDigits(a % Pow10(x.s), x.s))

ParseFail == [ok |-> FALSE, num |-> PyInt(0)]

ParseOk(n) == [ok |-> TRUE, num |-> n]

\* The sign and the unsigned rest of a stripped numeric text.
SignOf(t) == IF t # <<>> /\ Head(t) = "-" THEN -1 ELSE 1

Unsigned(t) == IF t # <<>> /\ Head(t) \in {"+", "-"} THEN Tail(t) ELSE t

\* int(text): optional sign, then one or more decimal digits; surrounding
\* whitespace is ignored.  ok = FALSE stands for ValueError.
IntOf(text) ==
    LET t    == Strip(text)
        body == Unsigned(t)
    IN  IF body # <<>> /\ AllDigits(body)
        THEN ParseOk(PyInt(SignOf(t) * DigitsVal(body)))
        ELSE ParseFail

\* float(text): optional sign, then digits with at most one point and at
\* least one digit, or one of the words inf, infinity, nan; surrounding
\* whitespace is ignored.  ok = FALSE stands for ValueError.
FloatOf(text) ==
    LET t    == Strip(text)
        body == Unsigned(t)
        dots == {i \in 1..Len(body) : body[i] = "."}
    IN  IF body \in {<<"i", "n", "f">>,
                     <<"i", "n", "f", "i", "n", "i", "t", "y">>}
        THEN ParseOk(PyInf(SignOf(t)))
        ELSE IF body = <<"n", "a", "n">> THEN ParseOk(PyNaN)
        ELSE IF Cardinality(dots) > 1 THEN ParseFail
        ELSE LET d  == IF dots = {} THEN Len(body) + 1
                       ELSE CHOOSE i \in dots : TRUE
                 ip == SubSeq(body, 1, d - 1)
                 fp == SubSeq(body, d + 1, Len(body))
             IN  IF AllDigits(ip) /\ AllDigits(fp) /\ Len(ip) + Len(fp) > 0
                 THEN ParseOk(PyFloat(SignOf(t) * DigitsVal(ip \o fp), Len(fp)))
                 ELSE ParseFail

\* float.is_integer()
IsInteger(x) == x.sp = "fin" /\ x.m % Pow10(x.s) = 0

\* number = float(text); if number.is_integer(): number = int(number)
NumberOf(text) ==
    LET f == FloatOf(text)
    IN  IF f.ok /\ IsInteger(f.num)
        THEN ParseOk(PyInt(f.num.m \div Pow10(f.num.s)))
        ELSE f

----------------------------------------------------------------------------
(* JSON values, as json.loads returns them *)

\* One record shape for every value: t is the type, and only the field of
\* that type is meaningful.  t = "absent" marks a key the object lacks.
JVal(t, num, str, items) == [t |-> t, num |-> num, str |-> str, items |-> items]

JAbsent == JVal("absent", PyInt(0), <<>>, <<>>)

\* null, Python's None
JNull == JVal("null", PyInt(0), <<>>, <<>>)

JNum(n) == JVal(IF n.k = "bool" THEN "bool" ELSE "num", n, <<>>, <<>>)

JStr(s) == JVal("str", PyInt(0), s, <<>>)

JList(items) == JVal("list", PyInt(0), <<>>, items)

\* Whether a value can be a dict key: lists (and dicts) are unhashable.
Hashable(v) == v.t \notin {"list", "dict"}

\* params.get(key, default)
ParamsGet(v, default) == IF v.t = "absent" THEN default ELSE v

DefaultRoi == JList(<<0, 0, 0, 0>>)

DefaultOcrName == JStr(<<"M", "y", "C", "u", "s", "t", "o", "m", "O", "C", "R">>)

GE == <<">", "=">>

DefaultOperator == JStr(GE)

\* roi = params.get("roi", [0, 0, 0, 0])
RoiOf(params) == ParamsGet(params.roi, DefaultRoi)

\* ocr_name = params.get("ocr_name", "MyCustomOCR")
OcrNameOf(params) == ParamsGet(params.ocr_name, DefaultOcrName)

\* A faulty variant: a missing compare_value defaults to 0 instead of None.
CompareValueOf_DefaultZero(params) == ParamsGet(params.compare_value, JNum(PyInt(0)))

\* compare_value = params.get("compare_value")
CompareValueOf(params) == ParamsGet(params.compare_value, JNull)

\* operator = params.get("operator", ">=")
OperatorOf(params) == ParamsGet(params.operator, DefaultOperator)

\* isinstance(compare_value, (int, float)): True and False are ints.
IsIntOrFloat(v) == v.t \in {"num", "bool"}

valid_operators ==
    {<<">">>, <<"<">>, <<">", "=">>, <<"<", "=">>, <<"=", "=">>, <<"!", "=">>}

\* A faulty variant: any string passes as an operator.
OperatorValid_AnyString(v) == v.t = "str"

\* operator not in valid_operators: a value of another type equals none.
OperatorValid(v) == v.t = "str" /\ v.str \in valid_operators

\* The if/elif chain over operator; a symbol none of the branches takes
\* leaves comparison_result unbound.
ComparisonResult(number, op, compare_value) ==
    CASE op = <<">">>      -> [bound |-> TRUE, v |-> PyLt(compare_value, number)]
      [] op = <<"<">>      -> [bound |-> TRUE, v |-> PyLt(number, compare_value)]
      [] op = <<">", "=">> -> [bound |-> TRUE,
                               v |-> PyLt(compare_value, number)
                                       \/ PyEq(number, compare_value)]
      [] op = <<"<", "=">> -> [bound |-> TRUE,
                               v |-> PyLt(number, compare_value)
                                       \/ PyEq(number, compare_value)]
      [] op = <<"=", "=">> -> [bound |-> TRUE, v |-> PyEq(number, compare_value)]
      [] op = <<"!", "=">> -> [bound |-> TRUE, v |-> ~PyEq(number, compare_value)]
      [] OTHER             -> [bound |-> FALSE, v |-> FALSE]

\* A faulty variant: the description renders the operands in the other order.
Description_Swapped(number, op, compare_value) ==
    StrOf(compare_value) \o <<" ">> \o op \o <<" ">> \o StrOf(number)

\* description = f"{number} {operator} {compare_value}"
Description(number, op, compare_value) ==
    StrOf(number) \o <<" ">> \o op \o <<" ">> \o StrOf(compare_value)

\* A faulty variant: the override always names the whole image.
PipelineOverride_FullScreen(name, region) == [recognizer |-> name, roi |-> DefaultRoi]

\* pipeline_override = {ocr_name: {"roi": roi}}
PipelineOverride(name, region) == [recognizer |-> name, roi |-> region]

----------------------------------------------------------------------------
(* What context.run_recognition hands back *)

\* t: "uncalled" before the call, "raised" when the call raised, "none" for
\* None, "falsy" for another falsy non-mapping (0, "", []), "object" for a
\* truthy non-mapping, "dict" for a mapping; of a mapping, empty says it is
\* {} and text is its "text" entry (JAbsent when it has none).
OcrResult(t, empty, text) == [t |-> t, empty |-> empty, text |-> text]

Uncalled == OcrResult("uncalled", TRUE, JAbsent)

OcrRaised == OcrResult("raised", TRUE, JAbsent)

\* not ocr_result
Falsy(res) == res.t \in {"none", "falsy"} \/ (res.t = "dict" /\ res.empty)

\* isinstance(ocr_result, dict)
IsDict(res) == res.t = "dict"

\* A faulty variant: a mapping without text reads as "0".
TextOf_DefaultZero(res) == ParamsGet(res.text, JStr(<<"0">>))

\* ocr_result.get("text", "")
TextOf(res) == ParamsGet(res.text, JStr(<<>>))

----------------------------------------------------------------------------
(* What analyze hands back *)

Detail(shape, number, gtz, cv, op, result, description) ==
    [shape |-> shape, number |-> number, greater_than_zero |-> gtz,
     compare_value |-> cv, operator |-> op, result |-> result,
     description |-> description]

NoDetail == Detail("none", PyInt(0), FALSE, PyInt(0), <<>>, FALSE, <<>>)

\* kind: "pending" while the call runs, "None" for the no-detection return,
\* "AnalyzeResult" for a returned record, "raised" for an exception that
\* left analyze.
Pending == [kind |-> "pending", box |-> JNull, detail |-> NoDetail]

NoneRet == [kind |-> "None", box |-> JNull, detail |-> NoDetail]

AnalyzeResult(box, detail) == [kind |-> "AnalyzeResult", box |-> box, detail |-> detail]

Propagated == [kind |-> "raised", box |-> JNull, detail |-> NoDetail]

\* The exception classes the body of the try can raise; all derive from
\* Exception (JSONDecodeError from ValueError).
ExceptionClasses ==
    {"JSONDecodeError", "AttributeError", "TypeError", "ValueError",
     "UnboundLocalError", "RuntimeError"}

\* A faulty variant: the outer handler catches ValueError (and its subclasses) only.
IsException_ValueErrorOnly(e) == e \in {"ValueError", "JSONDecodeError"}

\* except Exception as e:
IsException(e) == e \in ExceptionClasses

\* The outer handler: a caught exception becomes return None.
OnException(e) == IF IsException(e) THEN NoneRet ELSE Propagated

\* The outcome of a step: what is returned and the exception raised on the
\* way ("" when none was).
Returned(r) == [ret |-> r, exc |-> ""]

Raise(e) == [ret |-> OnException(e), exc |-> e]

\* json.loads(...) then params.get(...): the error of a payload that is no
\* JSON text, or is JSON but no object.
LoadError(p) == IF p.form = "malformed" THEN "JSONDecodeError" ELSE "AttributeError"

\* A faulty variant: greater_than_zero computed with >= instead of >.
GtZ_Evaluate_GreaterOrEqual(res, region) ==
    IF Falsy(res) \/ ~IsDict(res) THEN Returned(NoneRet)
    ELSE LET tv == TextOf(res)
         IN  IF tv.t # "str" THEN Raise("AttributeError")
             ELSE LET n == IntOf(Strip(tv.str))
                  IN  IF ~n.ok THEN Returned(NoneRet)
                      ELSE Returned(AnalyzeResult(region,
                               Detail("gtz", n.num, n.num.m >= 0,
                                      PyInt(0), <<>>, FALSE, <<>>)))

\* IsNumberGreaterThanZero.analyze after the recognition returned.
GtZ_Evaluate(res, region) ==
    IF Falsy(res) \/ ~IsDict(res) THEN Returned(NoneRet)
    ELSE LET tv == TextOf(res)
         IN  IF tv.t # "str" THEN Raise("AttributeError")
             ELSE LET n == IntOf(Strip(tv.str))
                  IN  IF ~n.ok THEN Returned(NoneRet)
                      ELSE Returned(AnalyzeResult(region,
                               Detail("gtz", n.num, n.num.m > 0,
                                      PyInt(0), <<>>, FALSE, <<>>)))

\* NumberComparison.analyze after the recognition returned.
Cmp_Evaluate(res, region, cv, op) ==
    IF Falsy(res) \/ ~IsDict(res) THEN Returned(NoneRet)
    ELSE LET tv == TextOf(res)
         IN  IF tv.t # "str" THEN Raise("AttributeError")
             ELSE LET n == NumberOf(Strip(tv.str))
                  IN  IF ~n.ok THEN Returned(NoneRet)
                      ELSE LET c == ComparisonResult(n.num, op.str, cv.num)
                           IN  IF ~c.bound THEN Raise("UnboundLocalError")
                               ELSE IF ~c.v THEN Returned(NoneRet)
                               ELSE Returned(AnalyzeResult(region,
                                        Detail("cmp", n.num, FALSE, cv.num, op.str,
                                               c.v, Description(n.num, op.str, cv.num))))

----------------------------------------------------------------------------
(* The inputs of a call *)

GtZ == "IsNumberGreaterThanZero"

Cmp == "NumberComparison"

\* argv.custom_recognition_param: form "malformed" is a string json.loads
\* rejects, "nonobject" is JSON that is no object (a list, a number, null),
\* "object" is a JSON object with these four keys present or absent.
Param(form, r, name, cv, op) ==
    [form |-> form, roi |-> r, ocr_name |-> name, compare_value |-> cv,
     operator |-> op]

NoParam(form) == Param(form, JAbsent, JAbsent, JAbsent, JAbsent)

OtherOcr == JStr(<<"O", "c", "r", "2">>)

\* roi and ocr_name together: both defaulted, both given, and a recognizer
\* name that is a JSON list.
RoiAndName ==
    {<<JAbsent, JAbsent>>,
     <<JList(<<1, 2, 3, 4>>), OtherOcr>>,
     <<JAbsent, JList(<<1>>)>>}

CompareValues ==
    {JAbsent, JNull,
     JNum(PyInt(3)), JNum(PyInt(5)), JNum(PyInt(10)),
     JNum(PyFloat(55, 1)), JNum([k |-> "float", m |-> 5, s |-> 0, sp |-> "fin"]),
     JNum(PyBool(TRUE)),
     JStr(<<"5">>), JList(<<5>>)}

Operators ==
    {JAbsent, JNull, JStr(<<"<", ">">>)} \cup {JStr(o) : o \in valid_operators}

GtZ_Params ==
    {NoParam("malformed"), NoParam("nonobject")}
      \cup {Param("object", rn[1], rn[2], JAbsent, JAbsent) : rn \in RoiAndName}
      \cup {Param("object", JAbsent, JAbsent, JNum(PyInt(3)), JStr(<<">">>))}

Cmp_Params ==
    {NoParam("malformed"), NoParam("nonobject")}
      \cup {Param("object", rn[1], rn[2], cv, op) :
              rn \in RoiAndName, cv \in CompareValues, op \in Operators}

Alphabet == {"5", "0", ".", "-", " ", "a"}

ExtraTexts ==
    {<<"4", "2">>, <<"-", "3">>, <<"-", "3", ".", "5">>, <<"a", "b", "c">>,
     <<"3">>, <<"0">>, <<"-", "0">>, <<"1", "0">>, <<"+", "5">>,
     <<"5", ".", "0">>, <<"5", ".", "5", "0">>, <<"0", ".", "0", "5">>,
     <<"n", "a", "n">>, <<"i", "n", "f">>, <<"-", "i", "n", "f">>,
     <<"i", "n", "f", "i", "n", "i", "t", "y">>}

\* The texts a recognizer may read: every string over Alphabet of at most
\* MaxLen characters, and the texts above.
Texts == UNION {[1..n -> Alphabet] : n \in 0..MaxLen} \cup ExtraTexts

\* What run_recognition may return.
OcrReturns ==
    {OcrResult("none", TRUE, JAbsent), OcrResult("falsy", TRUE, JAbsent),
     OcrResult("object", FALSE, JAbsent),
     OcrResult("dict", TRUE, JAbsent), OcrResult("dict", FALSE, JAbsent),
     OcrResult("dict", FALSE, JNull), OcrResult("dict", FALSE, JNum(PyInt(5)))}
      \cup {OcrResult("dict", FALSE, JStr(t)) : t \in Texts}

----------------------------------------------------------------------------
(* One analyze call *)

VARIABLES
    recognizer,     \* the class whose analyze runs
    param,          \* argv.custom_recognition_param
    pc,             \* "start", "resolved", "recognized", "done"
    roi, ocr_name, compare_value, operator,    \* the locals of analyze
    ocr_result,     \* the local ocr_result
    ocrCalls,       \* how many times context.run_recognition was entered
    callArgs,       \* the arguments of its last call
    exc,            \* the exception raised inside the try, "" when none
    ret             \* what analyze returned

vars == <<recognizer, param, pc, roi, ocr_name, compare_value, operator,
          ocr_result, ocrCalls, callArgs, exc, ret>>

NoCall == [name |-> JAbsent, pipeline_override |-> PipelineOverride(JAbsent, JAbsent)]

Init ==
    /\ recognizer \in {GtZ, Cmp}
    /\ param \in (IF recognizer = GtZ THEN GtZ_Params ELSE Cmp_Params)
    /\ pc = "start"
    /\ roi = JAbsent
    /\ ocr_name = JAbsent
    /\ compare_value = JAbsent
    /\ operator = JAbsent
    /\ ocr_result = Uncalled
    /\ ocrCalls = 0
    /\ callArgs = NoCall
    /\ exc = ""
    /\ ret = Pending

\* IsNumberGreaterThanZero.analyze up to the recognition call.
GtZ_Resolve ==
    /\ pc = "start"
    /\ recognizer = GtZ
    /\ IF param.form # "object"
       THEN /\ exc' = LoadError(param)
            /\ ret' = OnException(LoadError(param))
            /\ pc' = "done"
            /\ UNCHANGED <<roi, ocr_name>>
       ELSE /\ roi' = RoiOf(param)
            /\ ocr_name' = OcrNameOf(param)
            /\ pc' = "resolved"
            /\ UNCHANGED <<exc, ret>>
    /\ UNCHANGED <<recognizer, param, compare_value, operator, ocr_result,
                   ocrCalls, callArgs>>

\* NumberComparison.analyze up to the recognition call.
Cmp_Resolve ==
    /\ pc = "start"
    /\ recognizer = Cmp
    /\ IF param.form # "object"
       THEN /\ exc' = LoadError(param)
            /\ ret' = OnException(LoadError(param))
            /\ pc' = "done"
            /\ UNCHANGED <<roi, ocr_name, compare_value, operator>>
       ELSE /\ roi' = RoiOf(param)
            /\ ocr_name' = OcrNameOf(param)
            /\ compare_value' = CompareValueOf(param)
            /\ operator' = OperatorOf(param)
            /\ exc' = exc
            /\ IF \/ compare_value'.t = "null"
                  \/ ~IsIntOrFloat(compare_value')
                  \/ ~OperatorValid(operator')
               THEN ret' = NoneRet /\ pc' = "done"
               ELSE ret' = ret /\ pc' = "resolved"
    /\ UNCHANGED <<recognizer, param, ocr_result, ocrCalls, callArgs>>

\* context.run_recognition(ocr_name, argv.image, pipeline_override=...):
\* the override is built first (TypeError on an unhashable name), then the
\* recognizer runs and returns anything or raises.
RunRecognition(who) ==
    /\ pc = "resolved"
    /\ recognizer = who
    /\ IF ~Hashable(ocr_name)
       THEN /\ exc' = "TypeError"
            /\ ret' = OnException("TypeError")
            /\ pc' = "done"
            /\ UNCHANGED <<ocr_result, ocrCalls, callArgs>>
       ELSE /\ ocrCalls' = ocrCalls + 1
            /\ callArgs' = [name |-> ocr_name,
                            pipeline_override |-> PipelineOverride(ocr_name, roi)]
            /\ \E r \in OcrReturns \cup {OcrRaised} :
                 /\ ocr_result' = r
                 /\ IF r = OcrRaised
                    THEN /\ exc' = "RuntimeError"
                         /\ ret' = OnException("RuntimeError")
                         /\ pc' = "done"
                    ELSE /\ pc' = "recognized"
                         /\ UNCHANGED <<exc, ret>>
    /\ UNCHANGED <<recognizer, param, roi, ocr_name, compare_value, operator>>

GtZ_RunRecognition == RunRecognition(GtZ)

Cmp_RunRecognition == RunRecognition(Cmp)

\* IsNumberGreaterThanZero.analyze from the check of ocr_result to the return.
GtZ_Finish ==
    /\ pc = "recognized"
    /\ recognizer = GtZ
    /\ exc' = GtZ_Evaluate(ocr_result, roi).exc
    /\ ret' = GtZ_Evaluate(ocr_result, roi).ret
    /\ pc' = "done"
    /\ UNCHANGED <<recognizer, param, roi, ocr_name, compare_value, operator,
                   ocr_result, ocrCalls, callArgs>>

\* NumberComparison.analyze from the check of ocr_result to the return.
Cmp_Finish ==
    /\ pc = "recognized"
    /\ recognizer = Cmp
    /\ exc' = Cmp_Evaluate(ocr_result, roi, compare_value, operator).exc
    /\ ret' = Cmp_Evaluate(ocr_result, roi, compare_value, operator).ret
    /\ pc' = "done"
    /\ UNCHANGED <<recognizer, param, roi, ocr_name, compare_value, operator,
                   ocr_result, ocrCalls, callArgs>>

Next ==
    \/ GtZ_Resolve
    \/ GtZ_RunRecognition
    \/ GtZ_Finish
    \/ Cmp_Resolve
    \/ Cmp_RunRecognition
    \/ Cmp_Finish

Spec == Init /\ [][Next]_vars

----------------------------------------------------------------------------
(* The vocabulary of the properties *)

Done == pc = "done"

IsRecord == ret.kind = "AnalyzeResult"

SixSymbols ==
    {<<">">>, <<"<">>, <<">", "=">>, <<"<", "=">>, <<"=", "=">>, <<"!", "=">>}

\* The payload is a JSON object and its operator, when supplied, is one of
\* the six symbols.
OperatorGiven == param.form = "object" /\ param.operator.t # "absent"

OperatorAccepted ==
    param.form = "object"
      /\ (param.operator.t = "absent"
            \/ (param.operator.t = "str" /\ param.operator.str \in SixSymbols))

\* The roi and the recognizer name a JSON-object payload resolves to.
ResolvedRoi == IF param.roi.t = "absent" THEN JList(<<0, 0, 0, 0>>) ELSE param.roi

ResolvedName ==
    IF param.ocr_name.t = "absent"
    THEN JStr(<<"M", "y", "C", "u", "s", "t", "o", "m", "O", "C", "R">>)
    ELSE param.ocr_name

ResolvedOperator == IF param.operator.t = "absent" THEN <<">", "=">> ELSE param.operator.str

\* The adapter returned a non-empty mapping whose text is a string.
OcrGaveText ==
    ocr_result.t = "dict" /\ ~ocr_result.empty /\ ocr_result.text.t = "str"

TrimmedText == Strip(ocr_result.text.str)

OnlySpaces(t) == \A i \in 1..Len(t) : t[i] = " "

\* The adapter returned a null-like value, a non-mapping, an empty mapping,
\* a mapping without text, or one whose text is empty or whitespace only.
OcrGaveNothing ==
    \/ ocr_result.t \in {"none", "falsy", "object"}
    \/ /\ ocr_result.t = "dict"
       /\ \/ ocr_result.empty
          \/ ocr_result.text.t = "absent"
          \/ ocr_result.text.t = "str" /\ OnlySpaces(ocr_result.text.str)

\* An optionally signed run of decimal digits.
IsIntegerText(t) ==
    LET b == Unsigned(t) IN b # <<>> /\ \A i \in 1..Len(b) : b[i] \in Digits

\* An optionally signed decimal numeral: digits with at most one point.
IsNumeral(t) ==
    LET b == Unsigned(t)
    IN  /\ \E i \in 1..Len(b) : b[i] \in Digits
        /\ \A i \in 1..Len(b) : b[i] \in Digits \cup {"."}
        /\ Cardinality({i \in 1..Len(b) : b[i] = "."}) <= 1

\* n op c under the standard comparison of numbers.
StdCompare(n, op, c) ==
    CASE op = <<">">>      -> PyLt(c, n)
      [] op = <<"<">>      -> PyLt(n, c)
      [] op = <<">", "=">> -> ~PyLt(n, c) /\ n.sp # "nan" /\ c.sp # "nan"
      [] op = <<"<", "=">> -> ~PyLt(c, n) /\ n.sp # "nan" /\ c.sp # "nan"
      [] op = <<"=", "=">> -> PyEq(n, c)
      [] op = <<"!", "=">> -> ~PyEq(n, c)
      [] OTHER             -> FALSE

----------------------------------------------------------------------------
(* C1 *)

\* C1 (as claimed): gating mode returns a detail record if and only if the
\* payload is valid (compare_value a number, operator one of the six
\* symbols), the adapter returned a non-empty mapping, its trimmed text
\* parses as a number n, and n op c holds; otherwise it returns None.
C1_GatingIff ==
    Done /\ recognizer = Cmp =>
      /\ IsRecord <=>
           /\ OperatorAccepted
           /\ param.compare_value.t = "num"
           /\ OcrGaveText
           /\ FloatOf(TrimmedText).ok
           /\ StdCompare(FloatOf(TrimmedText).num, ResolvedOperator,
                         param.compare_value.num)
      /\ ~IsRecord => ret = NoneRet

----------------------------------------------------------------------------
(* C2 *)

\* C2: report-only mode returns a detail record if and only if the adapter
\* returned a non-empty mapping whose trimmed text is an integer n; the
\* record is then {number: n, greater_than_zero: n > 0}, whether n > 0 or
\* not ("42" gives true, "-3" gives a record with false); "-3.5" and "abc"
\* give None.
C2_ReportOnly ==
    Done /\ recognizer = GtZ =>
      LET isInt == OcrGaveText /\ IsIntegerText(TrimmedText)
          n     == IF isInt THEN SignOf(TrimmedText) * DigitsVal(Unsigned(TrimmedText))
                   ELSE 0
      IN  /\ IsRecord <=> isInt
          /\ ~isInt => ret = NoneRet
          /\ isInt => /\ ret.detail.shape = "gtz"
                      /\ ret.detail.number = PyInt(n)
                      /\ ret.detail.greater_than_zero = (n > 0)
          /\ OcrGaveText /\ ocr_result.text.str = <<"4", "2">> =>
               ret.detail.number = PyInt(42) /\ ret.detail.greater_than_zero
          /\ OcrGaveText /\ ocr_result.text.str = <<"-", "3">> =>
               IsRecord /\ ~ret.detail.greater_than_zero
          /\ OcrGaveText
               /\ ocr_result.text.str \in {<<"-", "3", ".", "5">>, <<"a", "b", "c">>} =>
               ret = NoneRet

\* A record for a number that is not positive: text "0".
C2_Witness ==
    /\ Done /\ recognizer = GtZ /\ OcrGaveText
    /\ ocr_result.text.str = <<"0">>
    /\ IsRecord /\ ~ret.detail.greater_than_zero

----------------------------------------------------------------------------
(* C3 *)

\* C3: in gating mode a payload whose operator is supplied and is not one
\* of the six symbols ends in None, and run_recognition is never called.
C3_BadOperatorBeforeOcr ==
    recognizer = Cmp /\ OperatorGiven /\ ~OperatorAccepted =>
      /\ ocrCalls = 0
      /\ ocr_result = Uncalled
      /\ Done => ret = NoneRet

\* Operator "<>" with an otherwise valid payload.
C3_Witness ==
    /\ Done /\ recognizer = Cmp
    /\ param.operator = JStr(<<"<", ">">>)
    /\ param.compare_value = JNum(PyInt(3))
    /\ Hashable(ResolvedName)
    /\ ret = NoneRet /\ ocrCalls = 0

----------------------------------------------------------------------------
(* C4 *)

\* C4: in gating mode a payload without compare_value (or with null) ends
\* in None whatever its other keys are, and the adapter is not consulted.
C4_MissingCompareValue ==
    recognizer = Cmp /\ param.form = "object"
      /\ param.compare_value.t \in {"absent", "null"} =>
      /\ ocrCalls = 0
      /\ Done => ret = NoneRet

\* No compare_value, everything else in order.
C4_Witness ==
    /\ Done /\ recognizer = Cmp /\ param.form = "object"
    /\ param.compare_value.t = "absent"
    /\ param.operator = JStr(<<">">>)
    /\ Hashable(ResolvedName)
    /\ ret = NoneRet

----------------------------------------------------------------------------
(* C5 *)

\* C5 (as claimed): in gating mode a compare_value that is present and not
\* a number (a string, a boolean, a list, an object) ends in None, and
\* every returned record carries a compare_value that is a number.
C5_CompareValueNumeric ==
    Done /\ recognizer = Cmp /\ param.form = "object" =>
      /\ param.compare_value.t \in {"str", "bool", "list", "dict"} => ret = NoneRet
      /\ IsRecord => ret.detail.compare_value.k \in {"int", "float"}

----------------------------------------------------------------------------
(* C6 *)

\* C6: in both modes a null-like value, a non-mapping, an empty mapping, a
\* mapping without text, or a text that is empty or only whitespace ends in
\* None; a missing text is never read as zero.
C6_NothingRecognized == Done /\ OcrGaveNothing => ret = NoneRet

\* A mapping without text under "<= 3", which zero would pass.
C6_Witness ==
    /\ Done /\ recognizer = Cmp
    /\ ocr_result = OcrResult("dict", FALSE, JAbsent)
    /\ param.compare_value = JNum(PyInt(3))
    /\ param.operator = JStr(<<"<", "=">>)
    /\ ret = NoneRet

----------------------------------------------------------------------------
(* C7 *)

\* C7: in both modes no exception leaves analyze: a call that is over has
\* returned a record or None, and whenever the body raised it returned None.
C7_NoErrorEscapes ==
    /\ ret.kind # "raised"
    /\ Done => ret.kind \in {"None", "AnalyzeResult"}
    /\ exc # "" => Done /\ ret = NoneRet
    /\ ~Done => ret = Pending

\* The adapter gave a text that is not a string, and strip() raised.
C7_Witness ==
    /\ Done /\ exc = "AttributeError"
    /\ ocr_result.t = "dict" /\ ocr_result.text.t = "null"
    /\ ret = NoneRet

----------------------------------------------------------------------------
(* C8 *)

\* C8 (as claimed): gating mode parses the text as a real number, keeps an
\* integral value as an integer ("5" and "5.0" both give 5, with the same
\* outcome) and any other value as a real ("5.5"), and rejects a text that
\* is not a numeral with None.
C8_Normalization ==
    Done /\ recognizer = Cmp /\ OcrGaveText =>
      /\ IsRecord =>
           /\ ret.detail.number.sp = "fin"
           /\ ret.detail.number.k = "int" <=> ret.detail.number.s = 0
           /\ ret.detail.number.k = "float" <=> ret.detail.number.s > 0
      /\ TrimmedText \in {<<"5">>, <<"5", ".", "0">>} =>
           ret = Cmp_Evaluate(OcrResult("dict", FALSE, JStr(<<"5">>)),
                              roi, compare_value, operator).ret
      /\ IsRecord /\ TrimmedText = <<"5", ".", "5">> =>
           ret.detail.number = [k |-> "float", m |-> 55, s |-> 1, sp |-> "fin"]
      /\ ~IsNumeral(TrimmedText) => ret = NoneRet

----------------------------------------------------------------------------
(* C9 *)

\* C9: every record gating mode returns has the resolved roi as its region
\* and carries the normalized number, the resolved compare_value and
\* operator (">=" when absent), result true, and the description
\* "<number> <operator> <compare_value>" (3, ">=", "5" gives "5 >= 3").
C9_DetailRecord ==
    Done /\ recognizer = Cmp /\ IsRecord =>
      /\ ret.box = ResolvedRoi
      /\ ret.detail.shape = "cmp"
      /\ ret.detail.number = NumberOf(TrimmedText).num
      /\ ret.detail.compare_value = param.compare_value.num
      /\ ret.detail.operator = ResolvedOperator
      /\ ret.detail.result = TRUE
      /\ ret.detail.description =
           StrOf(ret.detail.number) \o <<" ">> \o ResolvedOperator \o <<" ">>
             \o StrOf(param.compare_value.num)
      /\ param.compare_value = JNum(PyInt(3)) /\ ResolvedOperator = <<">", "=">>
           /\ ocr_result.text.str = <<"5">> =>
           ret.detail.description = <<"5", " ", ">", "=", " ", "3">>

\* Threshold 3, no operator and no roi given, text "5.0".
C9_Witness ==
    /\ Done /\ recognizer = Cmp /\ IsRecord
    /\ param.compare_value = JNum(PyInt(3))
    /\ param.operator.t = "absent" /\ param.roi.t = "absent"
    /\ ocr_result.text.str = <<"5", ".", "0">>
    /\ ret.detail.description = <<"5", " ", ">", "=", " ", "3">>

----------------------------------------------------------------------------
(* C10 *)

\* The payload passes parameter resolution.
ResolutionPassed ==
    /\ param.form = "object"
    /\ recognizer = Cmp =>
         param.compare_value.t \in {"num", "bool"} /\ OperatorAccepted

\* The adapter was called once, with the resolved name and an override that
\* restricts that recognizer to the resolved roi.
CalledOnceAsResolved ==
    /\ ocrCalls = 1
    /\ callArgs.name = ResolvedName
    /\ callArgs.pipeline_override = [recognizer |-> ResolvedName, roi |-> ResolvedRoi]

\* C10 (as claimed): one call invokes the adapter at most once; an invalid
\* or absent result, or a raise, is followed by None and no second
\* invocation; and every call whose payload passes parameter resolution
\* invokes it exactly once, as resolved.
C10_ExactlyOnce ==
    /\ ocrCalls <= 1
    /\ Done /\ (OcrGaveNothing \/ ocr_result = OcrRaised) => ret = NoneRet /\ ocrCalls = 1
    /\ Done /\ ResolutionPassed => CalledOnceAsResolved

\* C10 (amended): the same, for the payloads whose resolved recognizer name
\* is hashable; with a name that is a JSON list or object the override
\* cannot be built, the adapter is not invoked and the call returns None.
C10_ExactlyOnceHashable ==
    /\ ocrCalls <= 1
    /\ Done /\ (OcrGaveNothing \/ ocr_result = OcrRaised) => ret = NoneRet /\ ocrCalls = 1
    /\ Done /\ ResolutionPassed /\ Hashable(ResolvedName) => CalledOnceAsResolved
    /\ Done /\ ResolutionPassed /\ ~Hashable(ResolvedName) => ocrCalls = 0 /\ ret = NoneRet

\* An invalid result under a payload that names its own roi and recognizer.
C10_Witness ==
    /\ Done /\ recognizer = Cmp /\ ResolutionPassed
    /\ param.roi = JList(<<1, 2, 3, 4>>)
    /\ ocr_result = OcrResult("none", TRUE, JAbsent)
    /\ ocrCalls = 1 /\ ret = NoneRet

====
